---- MODULE Spec2Model ----
(***************************************************************************)
(* Model of the iterative tool-calling loop of app/src/lib/ollama.ts:      *)
(* parseToolCall, callMcpTool and the async generator ollamaChat, together *)
(* with the two collaborators it talks to (the model stream source and the *)
(* tool executor behind the MCP proxy).                                    *)
(*                                                                         *)
(* Text is a sequence of characters.  A character is a string; the fixed   *)
(* literals of the code ("[TOOL]", "[calling MCP ", ...) are one character *)
(* each, every other character stands for itself.                          *)
(***************************************************************************)
EXTENDS Integers, Sequences, FiniteSets, TLC

\* ------------------------------------------------------------------ bounds
\* most characters of model text put into one text delta
MaxDelta == 3
\* most bytes returned by one reader.read()
MaxChunk == 10
\* most bytes the stream source has sent and the reader has not yet read
MaxWire == 2
\* longest line given to parseToolCall on its own
MaxLine == 6
\* user turns of one chat session
MaxTurns == 2

\* --------------------------------------------------------------- characters
LF == "<LF>"
CR == "<CR>"
SP == " "
TOOL == "[TOOL]"
\* the text  "q":"  that opens the only member of a JSON object of the model
KeyOpen == "\"q\":\""
Quote == "\""
\* a two-byte UTF-8 character, its two bytes, and U+FFFD
UML == "u-umlaut"
UmlLead == "0xC3"
UmlCont == "0xBC"
REPL == "U+FFFD"

\* \w of the regular expression of parseToolCall
WordChars == {"f", "g"}
\* \s of the regular expression, the characters String.prototype.trim removes
IsSpace(c) == c \in {SP, LF, CR}
\* the line terminators that . of a regular expression does not match
IsLineTerminator(c) == c \in {LF, CR}

\* ------------------------------------------------------------ string helpers
\* String.prototype.trim
Trim(s) ==
  IF \A j \in 1..Len(s) : IsSpace(s[j]) THEN <<>>
  ELSE LET a == CHOOSE j \in 1..Len(s) :
                  ~IsSpace(s[j]) /\ \A h \in 1..(j - 1) : IsSpace(s[h])
           b == CHOOSE j \in 1..Len(s) :
                  ~IsSpace(s[j]) /\ \A h \in (j + 1)..Len(s) : IsSpace(s[h])
       IN SubSeq(s, a, b)

\* s.split('\n')
RECURSIVE SplitLF(_)
SplitLF(s) ==
  IF \A j \in 1..Len(s) : s[j] # LF THEN <<s>>
  ELSE LET j == CHOOSE j \in 1..Len(s) :
                  s[j] = LF /\ \A h \in 1..(j - 1) : s[h] # LF
       IN <<SubSeq(s, 1, j - 1)>> \o SplitLF(SubSeq(s, j + 1, Len(s)))

\* s.split(/\r?\n/): a CR directly before the LF belongs to the separator
SplitLines(s) ==
  LET parts == SplitLF(s)
      StripCR(p) == IF Len(p) > 0 /\ p[Len(p)] = CR
                    THEN SubSeq(p, 1, Len(p) - 1) ELSE p
  IN [j \in 1..Len(parts) |->
        IF j < Len(parts) THEN StripCR(parts[j]) ELSE parts[j]]

\* lines.join('\n')
RECURSIVE Join(_)
Join(lines) ==
  IF Len(lines) = 0 THEN <<>>
  ELSE IF Len(lines) = 1 THEN lines[1]
  ELSE lines[1] \o <<LF>> \o Join(Tail(lines))

\* concatenation of a sequence of texts
RECURSIVE Flatten(_)
Flatten(ss) == IF Len(ss) = 0 THEN <<>> ELSE Head(ss) \o Flatten(Tail(ss))

\* ------------------------------------------------------------------- JSON
\* characters that may stand unescaped inside a JSON string
IsStringChar(c) == c \notin {Quote, KeyOpen, LF, CR}

\* JSON.parse of the argument text of a directive: {} or {"q":"..."},
\* white space allowed around the member.  ok = FALSE is the SyntaxError.
\* The value is <<>> for {} and <<string>> for {"q":"string"}.
JSONParseArgs(t) ==
  LET inner == IF Len(t) >= 2 THEN Trim(SubSeq(t, 2, Len(t) - 1)) ELSE <<>>
      n == Len(inner)
  IN IF Len(t) < 2 \/ t[1] # "{" \/ t[Len(t)] # "}"
       THEN [ok |-> FALSE, value |-> <<>>]
     ELSE IF n = 0 THEN [ok |-> TRUE, value |-> <<>>]
     ELSE IF /\ n >= 2
             /\ inner[1] = KeyOpen
             /\ inner[n] = Quote
             /\ \A j \in 2..(n - 1) : IsStringChar(inner[j])
       THEN [ok |-> TRUE, value |-> <<SubSeq(inner, 2, n - 1)>>]
     ELSE [ok |-> FALSE, value |-> <<>>]

\* JSON.stringify of parsed arguments
JSONStringifyArgs(args) ==
  IF Len(args) = 0 THEN <<"{", "}">>
  ELSE <<"{", KeyOpen>> \o args[1] \o <<Quote, "}">>

\* ---------------------------------------------------------- parseToolCall
\* the null of parseToolCall
NoToolCall == [found |-> FALSE, name |-> <<>>, args |-> <<>>]

\* first index >= p of line whose character is not white space
SkipSpaces(line, p) ==
  IF \E j \in p..Len(line) : ~IsSpace(line[j])
  THEN CHOOSE j \in p..Len(line) :
         ~IsSpace(line[j]) /\ \A h \in p..(j - 1) : IsSpace(line[h])
  ELSE Len(line) + 1

\* first index >= p of line whose character is not a word character
SkipWord(line, p) ==
  IF \E j \in p..Len(line) : line[j] \notin WordChars
  THEN CHOOSE j \in p..Len(line) :
         line[j] \notin WordChars /\ \A h \in p..(j - 1) : line[h] \in WordChars
  ELSE Len(line) + 1

\* the pattern with \s+ after the marker
ToolCallMatchStrict(line) ==
  LET n == Len(line)
      p1 == SkipSpaces(line, 2)
      p2 == SkipWord(line, p1)
      p3 == SkipSpaces(line, p2)
      closes == {j \in (p3 + 1)..n : line[j] = "}"}
      e == IF closes = {} THEN 0
           ELSE CHOOSE j \in closes : \A h \in closes : h <= j
      ok == /\ n >= 1
            /\ line[1] = TOOL
            /\ p1 > 2
            /\ p2 > p1
            /\ p3 <= n
            /\ line[p3] = "{"
            /\ e > 0
            /\ \A j \in (p3 + 1)..(e - 1) : ~IsLineTerminator(line[j])
            /\ \A j \in (e + 1)..n : IsSpace(line[j])
  IN [ok |-> ok,
      m1 |-> IF ok THEN SubSeq(line, p1, p2 - 1) ELSE <<>>,
      m2 |-> IF ok THEN SubSeq(line, p3, e) ELSE <<>>]

\* line.match(/^\[TOOL\]\s*(\w+)\s*(\{.*\})\s*$/): group 1 is line[p1..p2-1],
\* group 2 runs from the { at p3 to the last } of the line
ToolCallMatch(line) ==
  LET n == Len(line)
      p1 == SkipSpaces(line, 2)
      p2 == SkipWord(line, p1)
      p3 == SkipSpaces(line, p2)
      closes == {j \in (p3 + 1)..n : line[j] = "}"}
      e == IF closes = {} THEN 0
           ELSE CHOOSE j \in closes : \A h \in closes : h <= j
      ok == /\ n >= 1
            /\ line[1] = TOOL
            /\ p2 > p1
            /\ p3 <= n
            /\ line[p3] = "{"
            /\ e > 0
            /\ \A j \in (p3 + 1)..(e - 1) : ~IsLineTerminator(line[j])
            /\ \A j \in (e + 1)..n : IsSpace(line[j])
  IN [ok |-> ok,
      m1 |-> IF ok THEN SubSeq(line, p1, p2 - 1) ELSE <<>>,
      m2 |-> IF ok THEN SubSeq(line, p3, e) ELSE <<>>]

parseToolCall(line) ==
  LET m == ToolCallMatch(line)
      parsed == JSONParseArgs(m.m2)
  IN IF ~m.ok THEN NoToolCall
     ELSE IF parsed.ok
       THEN [found |-> TRUE, name |-> m.m1, args |-> parsed.value]
     ELSE NoToolCall

\* ------------------------------------------------------- the wire formats
\* {"message":{"content":"   of the local provider's NDJSON lines
OpenMessage == "{\"message\":{\"content\":\""
\* {"choices":[{"delta":{"content":"   of the cloud provider's event lines
OpenChoices == "{\"choices\":[{\"delta\":{\"content\":\""
\* the closing  "}}  or  "}}]}  of either line
CloseObj == "\"}..."
\* an event line whose delta has no content field
RoleOnly == "{\"choices\":[{\"delta\":{\"role\":\"assistant\"}}]}"
DataPrefix == "data: "
Done == "[DONE]"
EscLF == "\\n"
EscCR == "\\r"
EscQuote == "\\\""
EscKeyOpen == "\\\"q\\\":\\\""

Providers == {"ollama", "openrouter"}

\* JSON string escaping done by the stream source
Escape(c) ==
  CASE c = LF -> EscLF
    [] c = CR -> EscCR
    [] c = Quote -> EscQuote
    [] c = KeyOpen -> EscKeyOpen
    [] OTHER -> c

Unescape(c) ==
  CASE c = EscLF -> LF
    [] c = EscCR -> CR
    [] c = EscQuote -> Quote
    [] c = EscKeyOpen -> KeyOpen
    [] OTHER -> c

\* UTF-8 encoding done by the stream source
RECURSIVE Utf8(_)
Utf8(t) ==
  IF Len(t) = 0 THEN <<>>
  ELSE (IF t[1] = UML THEN <<UmlLead, UmlCont>> ELSE <<t[1]>>) \o Utf8(Tail(t))

\* the line the stream source sends for one text delta
Frame(prov, delta) ==
  (IF prov = "openrouter" THEN <<DataPrefix, OpenChoices>> ELSE <<OpenMessage>>)
  \o Utf8([j \in 1..Len(delta) |-> Escape(delta[j])])
  \o <<CloseObj, LF>>

\* what the stream source sends before the first and after the last delta
Preamble(prov) ==
  IF prov = "openrouter" THEN <<DataPrefix, RoleOnly, LF>> ELSE <<>>

Terminator(prov) ==
  IF prov = "openrouter" THEN <<DataPrefix, Done, LF>> ELSE Frame(prov, <<>>)

\* new TextDecoder().decode(value), called without {stream: true}: a
\* multi-byte character cut by the end of value decodes to U+FFFD, and so
\* does the continuation byte that starts the next value
RECURSIVE decode(_)
decode(b) ==
  IF Len(b) = 0 THEN <<>>
  ELSE IF b[1] = UmlLead /\ Len(b) >= 2 /\ b[2] = UmlCont
    THEN <<UML>> \o decode(SubSeq(b, 3, Len(b)))
  ELSE IF b[1] \in {UmlLead, UmlCont} THEN <<REPL>> \o decode(Tail(b))
  ELSE <<b[1]>> \o decode(Tail(b))

\* JSON.parse of one wire line.  shape says which content field the object
\* has: "message" (obj.message.content), "choices"
\* (obj.choices[0].delta.content) or "none".
JSONParseLine(t) ==
  LET n == Len(t)
      Bad == [ok |-> FALSE, shape |-> "none", content |-> <<>>]
  IN IF t = <<RoleOnly>> THEN [ok |-> TRUE, shape |-> "none", content |-> <<>>]
     ELSE IF n < 2 THEN Bad
     ELSE IF /\ t[1] \in {OpenMessage, OpenChoices}
             /\ t[n] = CloseObj
             /\ \A j \in 2..(n - 1) :
                  t[j] \notin {Quote, KeyOpen, LF, CR, OpenMessage, OpenChoices,
                               CloseObj, RoleOnly}
       THEN [ok |-> TRUE,
             shape |-> IF t[1] = OpenMessage THEN "message" ELSE "choices",
             content |-> [j \in 1..(n - 2) |-> Unescape(t[j + 1])]]
     ELSE Bad

\* the text delta one line of the network buffer contributes (ollama.ts
\* 97-124); <<>> when the line is skipped or its JSON.parse throws
LineContent(prov, line) ==
  LET trimmedLine == Trim(line)
  IN IF Len(trimmedLine) = 0 THEN <<>>
     ELSE IF trimmedLine[1] = DataPrefix /\ prov = "openrouter"
       THEN LET dataLine == Tail(trimmedLine)
                obj == JSONParseLine(dataLine)
            IN IF dataLine = <<Done>> THEN <<>>
               ELSE IF obj.ok /\ obj.shape = "choices" THEN obj.content
               ELSE <<>>
     ELSE LET obj == JSONParseLine(trimmedLine)
          IN IF obj.ok /\ obj.shape = "message" THEN obj.content ELSE <<>>

\* the deltas of all complete lines of one read, in order
RECURSIVE LinesContent(_, _)
LinesContent(prov, lines) ==
  IF Len(lines) = 0 THEN <<>>
  ELSE LineContent(prov, Head(lines)) \o LinesContent(prov, Tail(lines))

\* ------------------------------------------- tool server, proxy, callMcpTool
\* the tools table of the tool server
Tools == {<<"f">>, <<"g">>}
\* a relative path that leaves the dataset root
Traversal == "../x"
\* the text results of the tool server, as the JSON the proxy passes on
ResultJson == "{\"content\":[...]}"
ErrorJson == "{\"content\":[{\"type\":\"text\",\"text\":\"Error: Path traversal blocked\"}]}"
UnknownJson == "{\"content\":[{\"type\":\"text\",\"text\":\"Unknown tool: gf\"}]}"
StatusMessage == "MCP call failed: 500 Internal Server Error "
\* the body the proxy sends with status 500
ErrorBody == "{\"error\":...}"
\* the body of an answer with an error status that is a text of several
\* lines, one of them of the form of a directive
TextPage == <<"g", LF, TOOL, SP, "g", SP, "{", "}", LF>>
FetchMessage == "Failed to fetch"

\* part_000 875-877: the handler of a tool throws for a path outside the root
HandlerRaises(args) ==
  Len(args) > 0 /\ \E j \in 1..Len(args[1]) : args[1][j] = Traversal

\* part_000 1084-1096: the CallTool handler of the tool server.  An unknown
\* name and an error thrown by the tool's handler are both returned as a
\* text result.
CallToolHandler(name, args) ==
  IF name \notin Tools THEN UnknownJson
  ELSE IF HandlerRaises(args) THEN ErrorJson
  ELSE ResultJson

\* the state of the MCP proxy during a call: it answers through the tool
\* server, its call of the tool server is rejected, or it is not reachable
ToolResponses == {"ok", "status", "throw"}

\* part_001 114-131: POST /tools/call.  The result of the tool server is
\* sent with status 200, a rejected mcp.callTool with status 500; "page" is
\* an answer to the request that does not come from the proxy's handler
ToolsCall(st, tc) ==
  CASE st = "ok" -> [kind |-> "ok", body |-> <<CallToolHandler(tc.name, tc.args)>>]
    [] st = "status" -> [kind |-> "status", body |-> <<ErrorBody>>]
    [] st = "page" -> [kind |-> "status", body |-> TextPage]
    [] OTHER -> [kind |-> "throw", body |-> <<>>]

\* ollama.ts 23-34, callMcpTool: returns res.json() when res.ok, throws with
\* the status and the text of the body otherwise; a rejected fetch throws
\* as well
callMcpTool(res) ==
  CASE res.kind = "ok" -> [threw |-> FALSE, result |-> res.body, message |-> <<>>]
    [] res.kind = "status" ->
         [threw |-> TRUE, result |-> <<>>, message |-> <<StatusMessage>> \o res.body]
    [] OTHER -> [threw |-> TRUE, result |-> <<>>, message |-> <<FetchMessage>>]

\* ------------------------------------------- the text blocks of ollamaChat
CallingOpen == "[calling MCP "
CallingClose == " ...]"
McpOpen == "[MCP "
ResultClose == " result]"
ErrorClose == " error] "
Hint == "[Hint] Ensure MCP proxy http://localhost:8787 is running and REPAIR_FILES_ROOT is set."
MaxNotice == "[Maximum iterations (10) reached. Stopping to prevent infinite loop.]"
NudgeText == "Continue gathering any additional information needed to fully answer the original question."

\* `\n[TOOL] ${toolCall.name} ${JSON.stringify(toolCall.args)}\n`
EchoText(tc) == <<LF, TOOL, SP>> \o tc.name \o <<SP>> \o JSONStringifyArgs(tc.args) \o <<LF>>
\* `\n[calling MCP ${toolCall.name} ...]\n`
CallingText(tc) == <<LF, CallingOpen>> \o tc.name \o <<CallingClose, LF>>
\* `\n[MCP ${toolCall.name} result]\n` + JSON.stringify(result, null, 2) + '\n'
ResultText(tc, result) == <<LF, McpOpen>> \o tc.name \o <<ResultClose, LF>> \o result \o <<LF>>
\* `\n[MCP ${toolCall.name} error] ${e?.message || String(e)}\n[Hint] ...\n`
ErrorText(tc, message) ==
  <<LF, McpOpen>> \o tc.name \o <<ErrorClose>> \o message \o <<LF, Hint, LF>>
NoticeText == <<LF, LF, MaxNotice>>

\* ---------------------------------------------------------------- fixtures
maxIterations == 10

\* the model outputs of the stream source
TxtPlain == <<"g", LF, "g">>
TxtCallF == <<TOOL, SP, "f", SP, "{", "}">>
TxtMixed == <<"g", LF, TOOL, SP, "f", SP, "{", "}", LF, "g">>
TxtTwo == <<TOOL, SP, "f", SP, "{", "}", LF, TOOL, SP, "g", SP, "{", "}">>
TxtBadJson == <<TOOL, SP, "f", SP, "{", "g", "}", LF, "g">>
\* a line that is no directive (its argument text is {}}), but whose
\* beginning is one
TxtPrefix == <<"g", LF, TOOL, SP, "f", SP, "{", "}", "}">>
TxtUml == <<TOOL, SP, "f", SP, "{", KeyOpen, UML, Quote, "}">>
TxtCRLF == <<TOOL, "f", "{", "}", CR, LF, "g">>
\* a directive for a tool the tool server does not have
TxtUnknown == <<TOOL, SP, "g", "f", SP, "{", "}">>
\* a directive whose argument is a path outside the dataset root
TxtTraversal == <<TOOL, SP, "f", SP, "{", KeyOpen, Traversal, Quote, "}">>
\* two directive lines written without blanks
TxtPair == <<TOOL, "f", "{", "}", LF, TOOL, "g", "{", "}">>

\* a stream source stub: the output of the first outer iteration, the
\* output of the later ones, and the iteration (counted from 0) from which
\* on the output is TxtPlain
Fixtures ==
  {[first |-> t, rest |-> TxtPlain, plainFrom |-> 1] :
     t \in {TxtPlain, TxtCallF, TxtMixed, TxtTwo, TxtBadJson, TxtPrefix,
            TxtUml, TxtCRLF, TxtPair}}
  \cup {[first |-> TxtCallF, rest |-> TxtCallF, plainFrom |-> n] :
          n \in {maxIterations - 1, maxIterations}}

\* the response of the model endpoint to one chat request
Responses == {[ok |-> TRUE, body |-> TRUE], [ok |-> FALSE, body |-> TRUE],
              [ok |-> TRUE, body |-> FALSE]}

InitialMessages ==
  <<[role |-> "system", content |-> <<"You are a helpful assistant">>],
    [role |-> "user", content |-> <<"list files">>]>>

Min(a, b) == IF a <= b THEN a ELSE b

\* ------------------------------------------------------------------- state
VARIABLES
  provider,           \* argument of ollamaChat
  apiKey,             \* TRUE when the apiKey argument is given
  messages,           \* argument of ollamaChat, the caller's array
  fixture,            \* the stream source stub of this turn
  stub,               \* the proxy's response to a call of tool f
  pc,                 \* "loop", "read", "tool", "done", "error" of the
                      \* generator, "closed" after the consumer left it,
                      \* "idle" before a call, "scan", "scanned" of one scan
  thrown,             \* message of the error raised to the caller
  currentMessages,    \* History
  iterationCount,
  buffer,             \* undecoded rest of the network stream
  textBuf,
  fullResponse,
  toolCallsExecuted,
  textLines,          \* the local textLines while callMcpTool is awaited
  i,                  \* the local i while callMcpTool is awaited
  toolCall,           \* the local toolCall while callMcpTool is awaited
  pending,            \* model output the stream source has not sent yet
  wire,               \* bytes sent by the stream source, not yet read
  requests,           \* number of chat requests sent in this turn
  res,                \* the response to the last chat request
  reqBody,            \* messages of the last chat request
  events,             \* yields of the generator and calls of the proxy
  received,           \* text deltas decoded in this outer iteration
  blocks,             \* result and error blocks of this outer iteration
  job,                \* the job state of the BatchProcessor
  controller,         \* abortControllerRef.current
  rowIndex,           \* the local i of processJob
  stale,              \* an earlier processJob loop that a later one overtook
  firstRun,           \* what the first of two runs of ollamaChat ended with
  served              \* the last call the tool server handled, with its answer

vars == <<provider, apiKey, messages, fixture, stub, pc, thrown,
          currentMessages, iterationCount, buffer, textBuf, fullResponse,
          toolCallsExecuted, textLines, i, toolCall, pending, wire,
          requests, res, reqBody, events, received, blocks,
          job, controller, rowIndex, stale, firstRun, served>>

args_ == <<provider, apiKey, messages, fixture, stub>>
iter_ == <<buffer, textBuf, fullResponse, toolCallsExecuted, received, blocks>>
await_ == <<textLines, i, toolCall>>
batch_ == <<job, controller, rowIndex, stale>>

\* the tool server has handled no call yet
NoCall == [name |-> "none", arg |-> <<>>, kind |-> "none", full |-> <<>>,
           files |-> {}]

\* no run of ollamaChat has ended yet
NoRun == [ended |-> FALSE, history |-> <<>>, output |-> <<>>, thrown |-> "none"]

\* ollama.ts 257: the job state null of the BatchProcessor
NoJob == [status |-> "none", currentIndex |-> 0, results |-> <<>>]

\* no processJob loop was overtaken by a later one
NoStale == [alive |-> FALSE, i |-> 0]

\* ollama.ts 461-463: the consumer of the batch leaves the loop over the
\* chunks at the first chunk it gets after the abort
Aborted == controller = "aborted"

Yield(text) == [kind |-> "yield", text |-> text, name |-> <<>>, args |-> <<>>]
Call(tc) == [kind |-> "call", text |-> <<>>, name |-> tc.name, args |-> tc.args]

\* the output sequence seen by the caller, and the calls seen by the proxy
Output == SelectSeq(events, LAMBDA e : e.kind = "yield")
ToolCalls == SelectSeq(events, LAMBDA e : e.kind = "call")

Init ==
  /\ provider \in Providers
  /\ apiKey \in BOOLEAN
  /\ provider = "ollama" => ~apiKey
  /\ messages = InitialMessages
  /\ fixture \in Fixtures
  /\ stub \in ToolResponses
  /\ pc = "loop"
  /\ thrown = "none"
  /\ currentMessages = messages
  /\ iterationCount = 0
  /\ buffer = <<>>
  /\ textBuf = <<>>
  /\ fullResponse = <<>>
  /\ toolCallsExecuted = 0
  /\ textLines = <<>>
  /\ i = 0
  /\ toolCall = NoToolCall
  /\ pending = <<>>
  /\ wire = <<>>
  /\ requests = 0
  /\ res = [ok |-> TRUE, body |-> TRUE]
  /\ reqBody = <<>>
  /\ events = <<>>
  /\ received = <<>>
  /\ blocks = <<>>
  /\ job = NoJob
  /\ controller = "none"
  /\ rowIndex = 0
  /\ stale = NoStale
  /\ firstRun = NoRun
  /\ served = NoCall

\* ------------------------------------------------------ the stream source
\* the model output of the current outer iteration
IterationText ==
  IF iterationCount >= fixture.plainFrom THEN TxtPlain
  ELSE IF iterationCount = 0 THEN fixture.first
  ELSE fixture.rest

\* The stream source sends the next text delta as one line; the line of the
\* last delta is followed by the end-of-stream line, then the stream closes.
ModelEmit ==
  /\ pc \in {"read", "tool"}
  /\ Len(pending) > 0
  /\ Len(wire) < MaxWire
  /\ \E d \in 1..Min(MaxDelta, Len(pending)) :
       /\ wire' = wire \o Frame(provider, SubSeq(pending, 1, d))
                       \o (IF d = Len(pending) THEN Terminator(provider) ELSE <<>>)
       /\ pending' = SubSeq(pending, d + 1, Len(pending))
  /\ UNCHANGED <<args_, batch_, firstRun, served, pc, thrown, currentMessages, iterationCount, iter_,
                 await_, requests, res, reqBody, events>>

\* ------------------------------------------------------------- ollamaChat
\* the loop condition with <= in place of <
LoopConditionOffByOne(ic) == ic <= maxIterations

\* ollama.ts 42: the condition of the outer loop
LoopCondition(ic) == ic < maxIterations

\* ollama.ts 47-50: the cloud provider without a key throws before any request
NoApiKey ==
  /\ pc = "loop"
  /\ LoopCondition(iterationCount)
  /\ provider = "openrouter" /\ ~apiKey
  /\ pc' = "error"
  /\ thrown' = "OpenRouter API key is required"
  /\ UNCHANGED <<args_, batch_, firstRun, served, currentMessages, iterationCount, iter_, await_,
                 pending, wire, requests, res, reqBody, events>>

\* a chat request that is sent again when the response is not a success
ChatRequestRetry ==
  /\ pc = "loop"
  /\ LoopCondition(iterationCount)
  /\ ~(provider = "openrouter" /\ ~apiKey)
  /\ requests' = requests + 1
  /\ reqBody' = currentMessages
  /\ res' \in Responses
  /\ IF ~res'.ok \/ ~res'.body
       THEN /\ pc' = "loop"
            /\ thrown' = thrown
            /\ UNCHANGED <<iter_, pending, wire>>
       ELSE /\ pc' = "read"
            /\ thrown' = thrown
            /\ buffer' = <<>>
            /\ textBuf' = <<>>
            /\ fullResponse' = <<>>
            /\ toolCallsExecuted' = 0
            /\ received' = <<>>
            /\ blocks' = <<>>
            /\ pending' = IterationText
            /\ wire' = Preamble(provider)
  /\ UNCHANGED <<args_, batch_, firstRun, served, currentMessages, iterationCount, await_, events>>

\* ollama.ts 42-84: the chat request of one outer iteration and its response
ChatRequest ==
  /\ pc = "loop"
  /\ LoopCondition(iterationCount)
  /\ ~(provider = "openrouter" /\ ~apiKey)
  /\ requests' = requests + 1
  /\ reqBody' = currentMessages
  /\ res' \in Responses
  /\ IF ~res'.ok \/ ~res'.body
       THEN /\ pc' = "error"
            /\ thrown' = "chat failed"
            /\ UNCHANGED <<iter_, pending, wire>>
       ELSE /\ pc' = "read"
            /\ thrown' = thrown
            /\ buffer' = <<>>
            /\ textBuf' = <<>>
            /\ fullResponse' = <<>>
            /\ toolCallsExecuted' = 0
            /\ received' = <<>>
            /\ blocks' = <<>>
            /\ pending' = IterationText
            /\ wire' = Preamble(provider)
  /\ UNCHANGED <<args_, batch_, firstRun, served, currentMessages, iterationCount, await_, events>>

\* index of the first line of tl for which parseToolCall finds a directive,
\* 0 when there is none (the for loop of ollama.ts 130-132)
FirstToolLine(tl) ==
  LET hits == {j \in 1..Len(tl) : parseToolCall(Trim(tl[j])).found}
  IN IF hits = {} THEN 0 ELSE CHOOSE j \in hits : \A h \in hits : j <= h

\* a read that calls the proxy before it yields the echo and the marker
ReadChunkCallFirst ==
  /\ pc = "read"
  /\ Len(wire) > 0
  /\ \E n \in 1..Min(MaxChunk, Len(wire)) :
       LET chunk == decode(SubSeq(wire, 1, n))
           lines == SplitLF(buffer \o chunk)
           content == LinesContent(provider, SubSeq(lines, 1, Len(lines) - 1))
           tl == SplitLines(textBuf \o content)
           hit == FirstToolLine(tl)
           tc == parseToolCall(Trim(tl[hit]))
           beforeToolCall == Join(SubSeq(tl, 1, hit - 1))
       IN /\ wire' = SubSeq(wire, n + 1, Len(wire))
          /\ buffer' = lines[Len(lines)]
          /\ textBuf' = textBuf \o content
          /\ fullResponse' = fullResponse \o content
          /\ received' = received \o content
          /\ IF hit = 0
             THEN /\ pc' = "read"
                  /\ UNCHANGED <<await_, events>>
             ELSE /\ pc' = "tool"
                  /\ textLines' = tl
                  /\ i' = hit
                  /\ toolCall' = tc
                  /\ events' = events
                       \o (IF Len(beforeToolCall) > 0
                           THEN <<Yield(beforeToolCall)>> ELSE <<>>)
                       \o <<Call(tc), Yield(EchoText(tc)), Yield(CallingText(tc))>>
  /\ UNCHANGED <<args_, batch_, firstRun, served, thrown, currentMessages, iterationCount,
                 toolCallsExecuted, blocks, pending, requests, res, reqBody>>

\* ollama.ts 87-147: one reader.read() that returns bytes, the decoding of
\* its complete lines, the scan of textBuf, and for a directive the yields
\* up to the call of the proxy; a consumer that leaves its loop closes the
\* generator at the yield
ReadChunk ==
  /\ pc = "read"
  /\ Len(wire) > 0
  /\ \E n \in 1..Min(MaxChunk, Len(wire)) :
       LET chunk == decode(SubSeq(wire, 1, n))
           lines == SplitLF(buffer \o chunk)
           content == LinesContent(provider, SubSeq(lines, 1, Len(lines) - 1))
           tl == SplitLines(textBuf \o content)
           hit == FirstToolLine(tl)
           tc == parseToolCall(Trim(tl[hit]))
           beforeToolCall == Join(SubSeq(tl, 1, hit - 1))
       IN /\ wire' = SubSeq(wire, n + 1, Len(wire))
          /\ buffer' = lines[Len(lines)]
          /\ textBuf' = textBuf \o content
          /\ fullResponse' = fullResponse \o content
          /\ received' = received \o content
          /\ IF hit = 0
             THEN /\ pc' = "read"
                  /\ UNCHANGED <<await_, events>>
             ELSE IF Aborted
             THEN /\ pc' = "closed"
                  /\ events' = Append(events,
                                      IF Len(beforeToolCall) > 0
                                      THEN Yield(beforeToolCall)
                                      ELSE Yield(EchoText(tc)))
                  /\ UNCHANGED await_
             ELSE /\ pc' = "tool"
                  /\ textLines' = tl
                  /\ i' = hit
                  /\ toolCall' = tc
                  /\ events' = events
                       \o (IF Len(beforeToolCall) > 0
                           THEN <<Yield(beforeToolCall)>> ELSE <<>>)
                       \o <<Yield(EchoText(tc)), Yield(CallingText(tc)), Call(tc)>>
  /\ UNCHANGED <<args_, batch_, firstRun, served, thrown, currentMessages, iterationCount,
                 toolCallsExecuted, blocks, pending, requests, res, reqBody>>

\* the response of the proxy to the call in flight
ProxyResponse ==
  ToolsCall(IF toolCall.name = <<"f">> THEN stub ELSE "ok", toolCall)

\* a tool call whose error is not caught: the generator throws
ToolReturnRethrow ==
  /\ pc = "tool"
  /\ LET r == callMcpTool(ProxyResponse)
         block == ResultText(toolCall, r.result)
     IN IF r.threw
        THEN /\ pc' = "error"
             /\ thrown' = "tool failed"
             /\ UNCHANGED <<events, fullResponse, blocks, toolCallsExecuted,
                            textBuf, await_>>
        ELSE /\ events' = Append(events, Yield(block))
             /\ fullResponse' = fullResponse \o block
             /\ blocks' = Append(blocks, block)
             /\ toolCallsExecuted' = toolCallsExecuted + 1
             /\ textBuf' = Join(SubSeq(textLines, i + 1, Len(textLines)))
             /\ textLines' = <<>>
             /\ i' = 0
             /\ toolCall' = NoToolCall
             /\ pc' = "read"
             /\ thrown' = thrown
  /\ UNCHANGED <<args_, batch_, firstRun, served, currentMessages, iterationCount, buffer,
                 received, pending, wire, requests, res, reqBody>>

\* a tool return that puts the block into the buffer that is scanned
ToolReturnRescan ==
  /\ pc = "tool"
  /\ LET r == callMcpTool(ProxyResponse)
         block == IF r.threw THEN ErrorText(toolCall, r.message)
                  ELSE ResultText(toolCall, r.result)
     IN /\ events' = Append(events, Yield(block))
        /\ blocks' = Append(blocks, block)
        /\ IF Aborted
           THEN /\ pc' = "closed"
                /\ UNCHANGED <<fullResponse, toolCallsExecuted, textBuf, await_>>
           ELSE /\ fullResponse' = fullResponse \o block
                /\ toolCallsExecuted' = toolCallsExecuted + 1
                /\ textBuf' = block \o Join(SubSeq(textLines, i + 1, Len(textLines)))
                /\ textLines' = <<>>
                /\ i' = 0
                /\ toolCall' = NoToolCall
                /\ pc' = "read"
  /\ UNCHANGED <<args_, batch_, firstRun, served, thrown, currentMessages, iterationCount, buffer,
                 received, pending, wire, requests, res, reqBody>>

\* a tool call that never settles when the proxy cannot be reached
ToolReturnHang ==
  /\ pc = "tool"
  /\ ProxyResponse.kind # "throw"
  /\ LET r == callMcpTool(ProxyResponse)
         block == IF r.threw THEN ErrorText(toolCall, r.message)
                  ELSE ResultText(toolCall, r.result)
     IN /\ events' = Append(events, Yield(block))
        /\ blocks' = Append(blocks, block)
        /\ IF Aborted
           THEN /\ pc' = "closed"
                /\ UNCHANGED <<fullResponse, toolCallsExecuted, textBuf, await_>>
           ELSE /\ fullResponse' = fullResponse \o block
                /\ toolCallsExecuted' = toolCallsExecuted + 1
                /\ textBuf' = Join(SubSeq(textLines, i + 1, Len(textLines)))
                /\ textLines' = <<>>
                /\ i' = 0
                /\ toolCall' = NoToolCall
                /\ pc' = "read"
  /\ UNCHANGED <<args_, batch_, firstRun, served, thrown, currentMessages, iterationCount, buffer,
                 received, pending, wire, requests, res, reqBody>>

\* ollama.ts 147-166: callMcpTool returns or throws
ToolReturn ==
  /\ pc = "tool"
  /\ LET r == callMcpTool(ProxyResponse)
         block == IF r.threw THEN ErrorText(toolCall, r.message)
                  ELSE ResultText(toolCall, r.result)
     IN /\ events' = Append(events, Yield(block))
        /\ blocks' = Append(blocks, block)
        /\ IF Aborted
           THEN /\ pc' = "closed"
                /\ UNCHANGED <<fullResponse, toolCallsExecuted, textBuf, await_>>
           ELSE /\ fullResponse' = fullResponse \o block
                /\ toolCallsExecuted' = toolCallsExecuted + 1
                /\ textBuf' = Join(SubSeq(textLines, i + 1, Len(textLines)))
                /\ textLines' = <<>>
                /\ i' = 0
                /\ toolCall' = NoToolCall
                /\ pc' = "read"
  /\ UNCHANGED <<args_, batch_, firstRun, served, thrown, currentMessages, iterationCount, buffer,
                 received, pending, wire, requests, res, reqBody>>

\* the notice already after the ninth counted iteration
EpilogueOneEarly(ic) ==
  IF ic >= maxIterations - 1 THEN <<Yield(NoticeText)>> ELSE <<>>

\* ollama.ts 203-205, reached by the break of 185 and by the loop condition
Epilogue(ic) == IF ic >= maxIterations THEN <<Yield(NoticeText)>> ELSE <<>>

\* a stream end taken whenever no byte is waiting, although more will come
StreamEndEarly ==
  /\ pc = "read"
  /\ Len(wire) = 0
  /\ LET flush == IF Len(textBuf) > 0 THEN <<Yield(textBuf)>> ELSE <<>>
         full == IF Len(textBuf) > 0 THEN fullResponse \o textBuf ELSE fullResponse
         assistant == [role |-> "assistant", content |-> full]
         nudge == [role |-> "user", content |-> <<NudgeText>>]
     IN /\ fullResponse' = full
        /\ IF toolCallsExecuted = 0
           THEN /\ currentMessages' = Append(currentMessages, assistant)
                /\ iterationCount' = iterationCount
                /\ events' = events \o flush \o Epilogue(iterationCount)
                /\ pc' = "done"
           ELSE /\ currentMessages' = currentMessages \o <<assistant, nudge>>
                /\ iterationCount' = iterationCount + 1
                /\ events' = events \o flush
                /\ pc' = "loop"
  /\ UNCHANGED <<args_, batch_, firstRun, served, thrown, buffer, textBuf, toolCallsExecuted, received,
                 blocks, await_, pending, wire, requests, res, reqBody>>

\* a stream end that appends the nudge before the test of toolCallsExecuted
StreamEndNudgeFirst ==
  /\ pc = "read"
  /\ Len(wire) = 0
  /\ Len(pending) = 0
  /\ LET flush == IF Len(textBuf) > 0 THEN <<Yield(textBuf)>> ELSE <<>>
         full == IF Len(textBuf) > 0 THEN fullResponse \o textBuf ELSE fullResponse
         assistant == [role |-> "assistant", content |-> full]
         nudge == [role |-> "user", content |-> <<NudgeText>>]
     IN /\ fullResponse' = full
        /\ IF toolCallsExecuted = 0
           THEN /\ currentMessages' = currentMessages \o <<assistant, nudge>>
                /\ iterationCount' = iterationCount
                /\ events' = events \o flush \o Epilogue(iterationCount)
                /\ pc' = "done"
           ELSE /\ currentMessages' = currentMessages \o <<assistant, nudge>>
                /\ iterationCount' = iterationCount + 1
                /\ events' = events \o flush
                /\ pc' = "loop"
  /\ UNCHANGED <<args_, batch_, firstRun, served, thrown, buffer, textBuf, toolCallsExecuted, received,
                 blocks, await_, pending, wire, requests, res, reqBody>>

\* a stream end that pushes to the caller's array: History without the copy
StreamEndShared ==
  /\ pc = "read"
  /\ Len(wire) = 0
  /\ Len(pending) = 0
  /\ LET flush == IF Len(textBuf) > 0 THEN <<Yield(textBuf)>> ELSE <<>>
         full == IF Len(textBuf) > 0 THEN fullResponse \o textBuf ELSE fullResponse
         assistant == [role |-> "assistant", content |-> full]
         nudge == [role |-> "user", content |-> <<NudgeText>>]
     IN /\ fullResponse' = full
        /\ IF toolCallsExecuted = 0
           THEN /\ currentMessages' = Append(currentMessages, assistant)
                /\ iterationCount' = iterationCount
                /\ events' = events \o flush \o Epilogue(iterationCount)
                /\ pc' = "done"
           ELSE /\ currentMessages' = currentMessages \o <<assistant, nudge>>
                /\ iterationCount' = iterationCount + 1
                /\ events' = events \o flush
                /\ pc' = "loop"
  /\ messages' = currentMessages'
  /\ UNCHANGED <<provider, apiKey, fixture, stub, thrown, buffer, textBuf,
                 toolCallsExecuted, received, blocks, await_, pending, wire,
                 requests, res, reqBody, batch_, firstRun, served>>

\* ollama.ts 88 and 171-201: reader.read() reports the end of the stream
StreamEnd ==
  /\ pc = "read"
  /\ Len(wire) = 0
  /\ Len(pending) = 0
  /\ LET flush == IF Len(textBuf) > 0 THEN <<Yield(textBuf)>> ELSE <<>>
         full == IF Len(textBuf) > 0 THEN fullResponse \o textBuf ELSE fullResponse
         assistant == [role |-> "assistant", content |-> full]
         nudge == [role |-> "user", content |-> <<NudgeText>>]
     IN IF Aborted /\ Len(textBuf) > 0
        THEN /\ events' = events \o flush
             /\ pc' = "closed"
             /\ UNCHANGED <<fullResponse, currentMessages, iterationCount>>
        ELSE
        /\ fullResponse' = full
        /\ IF toolCallsExecuted = 0
           THEN /\ currentMessages' = Append(currentMessages, assistant)
                /\ iterationCount' = iterationCount
                /\ events' = events \o flush \o Epilogue(iterationCount)
                /\ pc' = "done"
           ELSE /\ currentMessages' = currentMessages \o <<assistant, nudge>>
                /\ iterationCount' = iterationCount + 1
                /\ events' = events \o flush
                /\ pc' = "loop"
  /\ UNCHANGED <<args_, batch_, firstRun, served, thrown, buffer, textBuf, toolCallsExecuted, received,
                 blocks, await_, pending, wire, requests, res, reqBody>>

\* ollama.ts 42 and 203-205: the loop condition fails after the tenth round
MaxStop ==
  /\ pc = "loop"
  /\ ~LoopCondition(iterationCount)
  /\ events' = events \o Epilogue(iterationCount)
  /\ pc' = "done"
  /\ UNCHANGED <<args_, batch_, firstRun, served, thrown, currentMessages, iterationCount, iter_,
                 await_, pending, wire, requests, res, reqBody>>

Next ==
  \/ ModelEmit
  \/ NoApiKey
  \/ ChatRequest
  \/ ReadChunk
  \/ ToolReturn
  \/ StreamEnd
  \/ MaxStop

Spec == Init /\ [][Next]_vars

\* ------------------------------------------------------- the chat window
\* App.tsx 136, 144: the iteration marker the filter of the chat window knows
IterMark == "--- Iteration 1 ---"

\* the characters of the model that hold a ]
HasCloseBracket(c) ==
  c \in {TOOL, CallingClose, ResultClose, ErrorClose, Hint, MaxNotice, Done}

\* App.tsx 140-145: the four patterns tested on a trimmed line of a chunk
McpLine(trimmed) ==
  /\ Len(trimmed) > 0
  /\ \/ trimmed[1] = TOOL
     \/ trimmed[1] = CallingOpen
     \/ /\ trimmed[1] = McpOpen
        /\ \E p \in 3..Len(trimmed) :
             /\ trimmed[p] \in {ResultClose, ErrorClose}
             /\ \A j \in 2..(p - 1) : ~HasCloseBracket(trimmed[j])
     \/ trimmed[1] = IterMark

\* App.tsx 133-148: the chunk without its MCP lines
FilterChunk(chunk) ==
  IF \E j \in 1..Len(chunk) : chunk[j] \in {TOOL, CallingOpen, McpOpen, IterMark}
  THEN Join(SelectSeq(SplitLF(chunk), LAMBDA l : ~McpLine(Trim(l))))
  ELSE chunk

\* App.tsx 150, 298: what one chunk adds to the last assistant message
Shown(chunk) ==
  IF Len(Trim(FilterChunk(chunk))) = 0 THEN <<>> ELSE FilterChunk(chunk)

\* App.tsx 129, 297-307: the content of the assistant message of this turn
Visible == Flatten([k \in 1..Len(Output) |-> Shown(Output[k].text)])

\* App.tsx 45, 124, 299-306: the transcript msgs.  Before the first send
\* the variable messages holds it; from then on it is the history of the
\* last send and the assistant message of that turn.
msgs ==
  IF pc = "idle" THEN messages
  ELSE Append(messages, [role |-> "assistant", content |-> Visible])

\* App.tsx 89, 126, 309: the flag is set before the loop over the chunks and
\* cleared after it; an error thrown by ollamaChat leaves it set
streaming == pc \notin {"idle", "done"}

\* what the user types into the input field
Inputs == {<<SP>>, <<SP, "list files">>}

Turns(m) == Cardinality({k \in 1..Len(m) : m[k].role = "user"})

\* a call of ollamaChat whose iteration counter lives outside the call
StartChatKeepCount(m) ==
  /\ messages' = m
  /\ currentMessages' = m
  /\ pc' = "loop"
  /\ thrown' = "none"
  /\ iterationCount' = iterationCount
  /\ buffer' = <<>>
  /\ textBuf' = <<>>
  /\ fullResponse' = <<>>
  /\ toolCallsExecuted' = 0
  /\ textLines' = <<>>
  /\ i' = 0
  /\ toolCall' = NoToolCall
  /\ pending' = <<>>
  /\ wire' = <<>>
  /\ requests' = 0
  /\ res' = [ok |-> TRUE, body |-> TRUE]
  /\ reqBody' = <<>>
  /\ events' = <<>>
  /\ received' = <<>>
  /\ blocks' = <<>>

\* a call ollamaChat(model, m, provider, apiKey), up to its first await
StartChat(m) ==
  /\ messages' = m
  /\ currentMessages' = m
  /\ pc' = "loop"
  /\ thrown' = "none"
  /\ iterationCount' = 0
  /\ buffer' = <<>>
  /\ textBuf' = <<>>
  /\ fullResponse' = <<>>
  /\ toolCallsExecuted' = 0
  /\ textLines' = <<>>
  /\ i' = 0
  /\ toolCall' = NoToolCall
  /\ pending' = <<>>
  /\ wire' = <<>>
  /\ requests' = 0
  /\ res' = [ok |-> TRUE, body |-> TRUE]
  /\ reqBody' = <<>>
  /\ events' = <<>>
  /\ received' = <<>>
  /\ blocks' = <<>>

\* App.tsx 117-129: send, up to the first chunk; the submit button is
\* disabled while streaming is set (App.tsx 440)
send ==
  /\ ~streaming
  /\ Turns(msgs) < MaxTurns
  /\ \E input \in Inputs :
       LET user == [role |-> "user", content |-> Trim(input)]
       IN IF Len(user.content) = 0
          THEN UNCHANGED vars
          ELSE /\ StartChat(Append(msgs, user))
               /\ UNCHANGED <<provider, apiKey, fixture, stub, batch_, firstRun, served>>

\* the stream source stubs of the chat session
AppFixtures ==
  {f \in Fixtures : f.first = TxtMixed \/ f.plainFrom = maxIterations}

\* the App after its construction: the transcript is the system message
InitApp ==
  /\ provider \in Providers
  /\ apiKey \in BOOLEAN
  /\ provider = "ollama" => ~apiKey
  /\ messages = <<InitialMessages[1]>>
  /\ fixture \in AppFixtures
  /\ stub \in ToolResponses
  /\ pc = "idle"
  /\ thrown = "none"
  /\ currentMessages = <<>>
  /\ iterationCount = 0
  /\ buffer = <<>>
  /\ textBuf = <<>>
  /\ fullResponse = <<>>
  /\ toolCallsExecuted = 0
  /\ textLines = <<>>
  /\ i = 0
  /\ toolCall = NoToolCall
  /\ pending = <<>>
  /\ wire = <<>>
  /\ requests = 0
  /\ res = [ok |-> TRUE, body |-> TRUE]
  /\ reqBody = <<>>
  /\ events = <<>>
  /\ received = <<>>
  /\ blocks = <<>>
  /\ job = NoJob
  /\ controller = "none"
  /\ rowIndex = 0
  /\ stale = NoStale
  /\ firstRun = NoRun
  /\ served = NoCall

NextApp ==
  \/ send
  \/ ModelEmit
  \/ NoApiKey
  \/ ChatRequest
  \/ ReadChunk
  \/ ToolReturn
  \/ StreamEnd
  \/ MaxStop

SpecApp == InitApp /\ [][NextApp]_vars

\* ------------------------------------------ calls the tool server refuses
\* the stream source stubs whose directives the tool server cannot serve
ToolFixtures ==
  {[first |-> t, rest |-> TxtPlain, plainFrom |-> 1] : t \in {TxtUnknown, TxtTraversal}}
  \cup {f \in Fixtures : f.plainFrom = maxIterations}

InitTools ==
  /\ provider \in Providers
  /\ apiKey \in BOOLEAN
  /\ provider = "ollama" => ~apiKey
  /\ messages = InitialMessages
  /\ fixture \in ToolFixtures
  /\ stub \in ToolResponses \cup {"page"}
  /\ pc = "loop"
  /\ thrown = "none"
  /\ currentMessages = messages
  /\ iterationCount = 0
  /\ buffer = <<>>
  /\ textBuf = <<>>
  /\ fullResponse = <<>>
  /\ toolCallsExecuted = 0
  /\ textLines = <<>>
  /\ i = 0
  /\ toolCall = NoToolCall
  /\ pending = <<>>
  /\ wire = <<>>
  /\ requests = 0
  /\ res = [ok |-> TRUE, body |-> TRUE]
  /\ reqBody = <<>>
  /\ events = <<>>
  /\ received = <<>>
  /\ blocks = <<>>
  /\ job = NoJob
  /\ controller = "none"
  /\ rowIndex = 0
  /\ stale = NoStale
  /\ firstRun = NoRun
  /\ served = NoCall

SpecTools == InitTools /\ [][Next]_vars

\* ------------------------------------------------------ the batch processor
\* ollama.ts 258: the rows of the loaded CSV file
csvData == <<"row1", "row2">>

\* ollama.ts 264-329: the system message of the batch mode
systemMessage == [role |-> "system", content |-> <<"BATCH PROCESSING MODE">>]

\* ollama.ts 426-432: the user message of one row
userMessage(row) == <<"Bitte analysieren Sie folgenden Rechtsfall:", row>>

\* ollama.ts 434: the messages handed to ollamaChat for one row
RowMessages(row) ==
  <<systemMessage, [role |-> "user", content |-> userMessage(row)]>>

\* setJob(prev => prev ? next : null)
SetJob(prev, next) == IF prev = NoJob THEN NoJob ELSE next

\* processJob is not inside a call of ollamaChat
Halt ==
  /\ pc' = "idle"
  /\ UNCHANGED <<messages, thrown, currentMessages, iterationCount, iter_,
                 await_, pending, wire, requests, res, reqBody, events>>

\* a loop head that hands the History of the row before on to the next row
processJobCarry(idx, jb, aborted) ==
  /\ rowIndex' = idx
  /\ IF idx >= Len(csvData)
     THEN /\ job' = SetJob(jb, [jb EXCEPT !.status = "completed"])
          /\ Halt
     ELSE IF aborted
     THEN /\ job' = SetJob(jb, [jb EXCEPT !.status = "paused",
                                          !.currentIndex = idx])
          /\ Halt
     ELSE /\ job' = jb
          /\ StartChat(IF idx = 0 THEN RowMessages(csvData[idx + 1])
                       ELSE Append(currentMessages,
                                   RowMessages(csvData[idx + 1])[2]))

\* ollama.ts 410-439 and 514-517: processJob from the loop test with i = idx
\* up to the first await of ollamaChat, or to its return; jb is the job
\* state after the updates queued so far
processJob(idx, jb, aborted) ==
  /\ rowIndex' = idx
  /\ IF idx >= Len(csvData)
     THEN /\ job' = SetJob(jb, [jb EXCEPT !.status = "completed"])
          /\ Halt
     ELSE IF aborted
     THEN /\ job' = SetJob(jb, [jb EXCEPT !.status = "paused",
                                          !.currentIndex = idx])
          /\ Halt
     ELSE /\ job' = jb
          /\ StartChat(RowMessages(csvData[idx + 1]))

\* ollama.ts 388-407 and 650: the start button is shown while there is no
\* job and rows are loaded. A processJob loop that still runs is not ended by
\* the new one: it is kept as the overtaken loop, of which there is at most
\* one
startProcessing ==
  /\ job = NoJob
  /\ Len(csvData) > 0
  /\ pc # "idle" => ~stale.alive
  /\ stale' = IF pc # "idle" THEN [alive |-> TRUE, i |-> rowIndex]
              ELSE IF stale.alive THEN stale ELSE NoStale
  /\ controller' = "live"
  /\ processJob(0, [status |-> "running", currentIndex |-> 0, results |-> <<>>],
                FALSE)
  /\ UNCHANGED <<provider, apiKey, fixture, stub, firstRun, served>>

\* a resume that runs the rows from the first one again
resumeProcessingRestart ==
  /\ job.status = "paused"
  /\ pc # "idle" => ~stale.alive
  /\ stale' = IF pc # "idle" THEN [alive |-> TRUE, i |-> rowIndex] ELSE stale
  /\ controller' = "live"
  /\ processJob(0, [job EXCEPT !.status = "running"], FALSE)
  /\ UNCHANGED <<provider, apiKey, fixture, stub, firstRun, served>>

\* ollama.ts 527-535 and 668: the resume button is shown while the job is
\* paused; processJob is called without await
resumeProcessing ==
  /\ job.status = "paused"
  /\ pc # "idle" => ~stale.alive
  /\ stale' = IF pc # "idle" THEN [alive |-> TRUE, i |-> rowIndex] ELSE stale
  /\ controller' = "live"
  /\ processJob(job.currentIndex, [job EXCEPT !.status = "running"], FALSE)
  /\ UNCHANGED <<provider, apiKey, fixture, stub, firstRun, served>>

\* ollama.ts 537-544 and 677: the stop button is shown while there is a job;
\* the loop of processJob is not ended here
stopProcessing ==
  /\ job # NoJob
  /\ controller' = IF controller = "none" THEN "none" ELSE "aborted"
  /\ job' = NoJob
  /\ UNCHANGED <<args_, rowIndex, stale, firstRun, served, pc, thrown,
                 currentMessages, iterationCount, iter_, await_, pending,
                 wire, requests, res, reqBody, events>>

\* ollama.ts 410-518 in a loop that a later loop overtook: its row ends (the
\* generator returned, threw, or the consumer left at a chunk after an abort),
\* the result is recorded and the loop test and the abort check are made
\* against the controller that is current now; the chunks of this loop's
\* generator are not kept
StaleRowEnd ==
  /\ stale.alive
  /\ \E st \in {"completed", "error"} :
       LET result == [processId |-> csvData[stale.i + 1], response |-> <<>>,
                      status |-> st,
                      error |-> IF st = "error" THEN "chat failed" ELSE "none"]
           jb == SetJob(job, [job EXCEPT !.currentIndex = stale.i + 1,
                                         !.results = Append(@, result)])
           idx == stale.i + 1
       IN IF idx >= Len(csvData)
          THEN /\ job' = SetJob(jb, [jb EXCEPT !.status = "completed"])
               /\ stale' = [alive |-> FALSE, i |-> idx]
          ELSE IF Aborted
          THEN /\ job' = SetJob(jb, [jb EXCEPT !.status = "paused",
                                               !.currentIndex = idx])
               /\ stale' = [alive |-> FALSE, i |-> idx]
          ELSE /\ job' = jb
               /\ stale' = [alive |-> TRUE, i |-> idx]
  /\ UNCHANGED <<args_, controller, rowIndex, firstRun, served, pc, thrown,
                 currentMessages, iterationCount, iter_, await_, pending,
                 wire, requests, res, reqBody, events>>

\* ollama.ts 439-511: the loop over the chunks has ended (the generator
\* returned, or the consumer left the loop) or ollamaChat has thrown; the
\* result of the row is recorded and the loop goes on with the next row
RowEnd ==
  /\ pc \in {"done", "closed", "error"}
  /\ LET result ==
           IF pc = "error"
           THEN [processId |-> csvData[rowIndex + 1], response |-> <<>>,
                 status |-> "error", error |-> thrown]
           ELSE [processId |-> csvData[rowIndex + 1], response |-> Trim(Visible),
                 status |-> "completed", error |-> "none"]
         jb == SetJob(job, [job EXCEPT !.currentIndex = rowIndex + 1,
                                       !.results = Append(@, result)])
     IN processJob(rowIndex + 1, jb, Aborted)
  /\ UNCHANGED <<provider, apiKey, fixture, stub, controller, stale, firstRun,
                 served>>

\* ollama.ts 520-525 and 659: the pause button is shown while the job runs
pauseProcessing ==
  /\ job.status = "running"
  /\ controller # "none"
  /\ controller' = "aborted"
  /\ UNCHANGED <<args_, job, rowIndex, stale, firstRun, served, pc, thrown,
                 currentMessages, iterationCount, iter_, await_, pending, wire, requests, res,
                 reqBody, events>>

\* the stream source stubs of the batch: every row gets the same stream
BatchFixtures ==
  {f \in Fixtures : f.first = TxtMixed \/ f.plainFrom = maxIterations}

\* the BatchProcessor after a CSV file was loaded; the stub that runs into
\* the iteration cap is taken with one provider and one proxy response
InitBatch ==
  /\ provider \in Providers
  /\ apiKey \in BOOLEAN
  /\ provider = "ollama" => ~apiKey
  /\ messages = <<>>
  /\ fixture \in BatchFixtures
  /\ stub \in ToolResponses
  /\ fixture.plainFrom = maxIterations => provider = "ollama" /\ stub = "ok"
  /\ pc = "idle"
  /\ thrown = "none"
  /\ currentMessages = <<>>
  /\ iterationCount = 0
  /\ buffer = <<>>
  /\ textBuf = <<>>
  /\ fullResponse = <<>>
  /\ toolCallsExecuted = 0
  /\ textLines = <<>>
  /\ i = 0
  /\ toolCall = NoToolCall
  /\ pending = <<>>
  /\ wire = <<>>
  /\ requests = 0
  /\ res = [ok |-> TRUE, body |-> TRUE]
  /\ reqBody = <<>>
  /\ events = <<>>
  /\ received = <<>>
  /\ blocks = <<>>
  /\ job = NoJob
  /\ controller = "none"
  /\ rowIndex = 0
  /\ stale = NoStale
  /\ firstRun = NoRun
  /\ served = NoCall

NextBatch ==
  \/ startProcessing
  \/ RowEnd
  \/ pauseProcessing
  \/ ModelEmit
  \/ NoApiKey
  \/ ChatRequest
  \/ ReadChunk
  \/ ToolReturn
  \/ StreamEnd
  \/ MaxStop

SpecBatch == InitBatch /\ [][NextBatch]_vars

\* ------------------------------------------------------------------ claims
\* is b a contiguous part of s
IsInfix(b, s) == \E k \in 0..(Len(s) - Len(b)) : SubSeq(s, k + 1, k + Len(b)) = b

\* the numbers of the lines of a model output that are directives
DirectiveLines(text) ==
  {j \in 1..Len(SplitLines(text)) : parseToolCall(Trim(SplitLines(text)[j])).found}

Assistants(ms) == {k \in 1..Len(ms) : ms[k].role = "assistant"}
Nudges(ms) == {k \in 1..Len(ms) : ms[k] = [role |-> "user", content |-> <<NudgeText>>]}
LastOutput == Output[Len(Output)]

\* C1: the stream source is invoked at most 10 times in a turn; a turn in
\* which every outer iteration executed a tool call ends after exactly 10
\* invocations with the maximum-iterations notice as its last output.
C1_IterationCap ==
  /\ requests <= maxIterations
  /\ (pc = "done" /\ toolCallsExecuted > 0) =>
       /\ requests = maxIterations
       /\ Cardinality(Nudges(currentMessages)) = maxIterations
       /\ Len(Output) > 0
       /\ LastOutput = Yield(NoticeText)

C1_Witness ==
  /\ pc = "done"
  /\ toolCallsExecuted > 0
  /\ requests = maxIterations
  /\ LastOutput = Yield(NoticeText)

\* C2: when the model output of the first outer iteration has no directive
\* line, the turn takes one model invocation, the proxy is never called, one
\* assistant entry is appended, and no nudge and no notice is produced.
C2_NoDirectiveOneIteration ==
  DirectiveLines(fixture.first) = {} =>
    /\ requests <= 1
    /\ Len(ToolCalls) = 0
    /\ Nudges(currentMessages) = {}
    /\ \A k \in 1..Len(Output) : Output[k] # Yield(NoticeText)
    /\ pc = "done" => Cardinality(Assistants(currentMessages)) = 1

\* C3: a failing tool call does not abort the turn: its error block is
\* yielded and appended to the accumulated text, it counts as executed, the
\* assistant entry of the iteration holds the block, and the loop goes back
\* to the point where the next chat request is sent.
C3_ToolFailureAbsorbed ==
  /\ [][(pc = "tool" /\ pc' # "tool" /\ callMcpTool(ProxyResponse).threw) =>
          LET errorText == ErrorText(toolCall, callMcpTool(ProxyResponse).message)
          IN /\ pc' = "read"
             /\ thrown' = thrown
             /\ events' = Append(events, Yield(errorText))
             /\ fullResponse' = fullResponse \o errorText
             /\ toolCallsExecuted' = toolCallsExecuted + 1]_vars
  /\ [][(pc = "read" /\ pc' \notin {"read", "tool"} /\ toolCallsExecuted > 0) =>
          /\ pc' = "loop"
          /\ iterationCount' = iterationCount + 1
          /\ Len(currentMessages') = Len(currentMessages) + 2
          /\ currentMessages'[Len(currentMessages) + 1].role = "assistant"
          /\ \A k \in 1..Len(blocks) :
               IsInfix(blocks[k], currentMessages'[Len(currentMessages) + 1].content)]_vars
  /\ [](pc = "loop" /\ iterationCount \in 1..(maxIterations - 1) => ENABLED ChatRequest)
  /\ [](pc = "error" => thrown \in {"chat failed", "OpenRouter API key is required"})

C3_Witness ==
  /\ requests >= 2
  /\ pc = "read"
  /\ \E k \in Assistants(reqBody) : IsInfix(<<ErrorClose, FetchMessage>>, reqBody[k].content)

\* C4: a chat response that is not a success, or has no body, makes
\* ollamaChat throw; after that no chat request and no proxy call is made.
C4_ChatFailureFatal ==
  /\ []((requests > 0 /\ (~res.ok \/ ~res.body)) =>
          (pc = "error" /\ thrown = "chat failed"))
  /\ [][pc = "error" =>
          (pc' = "error" /\ requests' = requests /\ ToolCalls' = ToolCalls)]_vars

C4_Witness ==
  /\ pc = "error"
  /\ ~res.ok
  /\ requests >= 2
  /\ Len(ToolCalls) > 0

\* the lines of a model output that match the pattern of parseToolCall, but
\* whose argument text JSON.parse rejects
MalformedLines(text) ==
  {j \in 1..Len(SplitLines(text)) :
     /\ ToolCallMatch(Trim(SplitLines(text)[j])).ok
     /\ ~JSONParseArgs(ToolCallMatch(Trim(SplitLines(text)[j])).m2).ok}

\* the text of all output fragments
OutputText == Flatten([k \in 1..Len(Output) |-> Output[k].text])

\* is c made of the characters of a and of b, each in its order
RECURSIVE IsShuffle(_, _, _)
IsShuffle(c, a, b) ==
  /\ Len(c) = Len(a) + Len(b)
  /\ \/ Len(c) = 0
     \/ Len(a) > 0 /\ c[1] = a[1] /\ IsShuffle(Tail(c), Tail(a), b)
     \/ Len(b) > 0 /\ c[1] = b[1] /\ IsShuffle(Tail(c), a, Tail(b))

LastAssistant(ms) ==
  ms[CHOOSE k \in Assistants(ms) : \A h \in Assistants(ms) : h <= k]

\* C5: a model output with one directive line makes the proxy be called
\* once, with the name and the arguments of that line, however the output is
\* cut into deltas and chunks.
C5_OneCallPerDirective ==
  (requests = 1 /\ Cardinality(DirectiveLines(fixture.first)) = 1) =>
    LET lines == SplitLines(fixture.first)
        d == parseToolCall(Trim(lines[CHOOSE j \in DirectiveLines(fixture.first) : TRUE]))
    IN /\ Len(ToolCalls) <= 1
       /\ \A k \in 1..Len(ToolCalls) : ToolCalls[k] = Call(d)
       /\ pc \in {"loop", "done"} => Len(ToolCalls) = 1

\* C6: a line that matches the directive pattern with argument text that is
\* not JSON is never executed, raises nothing, and its text reaches the output.
C6_MalformedNotExecuted ==
  (/\ requests = 1
   /\ MalformedLines(fixture.first) # {}
   /\ DirectiveLines(fixture.first) = {}) =>
    /\ Len(ToolCalls) = 0
    /\ toolCallsExecuted = 0
    /\ thrown \in {"none", "chat failed"}
    /\ pc = "done" =>
         \A j \in MalformedLines(fixture.first) :
           IsInfix(Trim(SplitLines(fixture.first)[j]), OutputText)

\* C7: the assistant entry appended at the end of an outer iteration holds
\* every decoded text delta of the iteration once and every result or error
\* block of the iteration, and nothing else.
C7_HistoryHoldsEachDeltaOnce ==
  (pc \in {"loop", "done"} /\ requests >= 1) =>
    IsShuffle(LastAssistant(currentMessages).content, received, Flatten(blocks))

\* a result or error block of a call
IsBlockOf(e, tc) ==
  \E r \in ToolResponses :
    LET c == callMcpTool(ToolsCall(r, tc))
    IN e = Yield(IF c.threw THEN ErrorText(tc, c.message)
                 ELSE ResultText(tc, c.result))

\* C8: for every directive the text before its line is yielded, then the
\* echo, then the calling marker, then the proxy is called, then one result
\* or error block is yielded, with no other yield in between.
C8_DirectiveEventOrder ==
  /\ [](\A k \in 1..Len(events) :
          /\ events[k].kind = "call" =>
               LET tc == [found |-> TRUE, name |-> events[k].name, args |-> events[k].args]
               IN /\ k >= 3
                  /\ events[k - 2] = Yield(EchoText(tc))
                  /\ events[k - 1] = Yield(CallingText(tc))
                  /\ IF k = Len(events) THEN pc = "tool"
                     ELSE IsBlockOf(events[k + 1], tc)
          /\ (events[k].kind = "yield" /\ Len(events[k].text) > 1
                /\ events[k].text[2] = McpOpen) =>
               (k > 1 /\ events[k - 1].kind = "call"))
  /\ [][Len(ToolCalls') > Len(ToolCalls) =>
          LET tl == SplitLines(textBuf')
              before == Join(SubSeq(tl, 1, i' - 1))
          IN /\ toolCall'.found
             /\ toolCall' = parseToolCall(Trim(tl[i']))
             /\ events' = events
                  \o (IF Len(before) > 0 THEN <<Yield(before)>> ELSE <<>>)
                  \o <<Yield(EchoText(toolCall')), Yield(CallingText(toolCall')),
                       Call(toolCall')>>]_vars

C8_Witness ==
  \E k \in 4..(Len(events) - 1) :
    /\ events[k].kind = "call"
    /\ events[k - 3] = Yield(<<"g">>)
    /\ IsBlockOf(events[k + 1], [found |-> TRUE, name |-> events[k].name, args |-> events[k].args])

\* the outer iterations whose stream has been read to its end
CompletedIterations ==
  IF pc \in {"read", "tool"} \/ (pc = "error" /\ requests > 0)
  THEN requests - 1 ELSE requests

\* C9: each outer iteration appends one assistant entry, and only when its
\* stream has been read to the end; no chat request carries an assistant
\* message that was still being received.
C9_AssistantAfterDrain ==
  /\ [](Cardinality(Assistants(currentMessages)) = CompletedIterations)
  /\ [](pc \in {"read", "tool"} => currentMessages = reqBody)
  /\ [][currentMessages' # currentMessages =>
          /\ pc = "read"
          /\ Len(wire) = 0
          /\ Len(pending) = 0
          /\ Len(currentMessages') > Len(currentMessages)
          /\ SubSeq(currentMessages', 1, Len(currentMessages) + 1)
               = Append(currentMessages, [role |-> "assistant", content |-> fullResponse'])
          /\ Assistants(currentMessages')
               = Assistants(currentMessages) \cup {Len(currentMessages) + 1}]_vars

C9_Witness ==
  /\ requests >= 2
  /\ pc = "read"
  /\ Assistants(reqBody) # {}
  /\ Len(received) > 0

\* C10: once a network fragment is decoded and holds no directive, its text
\* is yielded before the next read is awaited.
C10_PlainTextForwardedAtOnce ==
  (pc = "read" /\ requests = 1 /\ Len(ToolCalls) = 0) => OutputText = received

\* the model output of this outer iteration that the scan has not seen yet:
\* the deltas of the lines in flight, then the text still to be sent
Unread == LinesContent(provider, SplitLF(buffer \o decode(wire))) \o pending

\* C11: a directive is only taken from a line of the text buffer that is
\* terminated by a newline; the last line of the buffer triggers a tool call
\* only when no further text of that line is still to arrive.
C11_UnterminatedLineNotTested ==
  (pc = "tool" /\ i = Len(textLines)) =>
    (Len(Unread) = 0 \/ IsLineTerminator(Unread[1]))

\* the tool names of the directive lines of a model output, in the order
\* written
DirectiveNames(text) ==
  LET ds == SelectSeq(SplitLines(text), LAMBDA l : parseToolCall(Trim(l)).found)
  IN [k \in 1..Len(ds) |-> parseToolCall(Trim(ds[k])).name]

\* C12: when the stream of an outer iteration has been read to its end,
\* every directive line of the iteration's model output has been executed,
\* in the order written, however the output was cut into fragments.
C12_EveryDirectiveExecuted ==
  (requests = 1 /\ pc \in {"loop", "done"}) =>
    LET names == DirectiveNames(fixture.first)
    IN /\ Len(ToolCalls) >= Len(names)
       /\ \A k \in 1..Len(names) : ToolCalls[k].name = names[k]

\* ------------------------------------------- parseToolCall on single lines
\* the characters of the lines given to parseToolCall on its own
LineChars == {TOOL, SP, CR, "f", "{", "}"}

\* the trimmed lines of at most MaxLine characters: textLines[i].trim()
TrimmedLines ==
  {l \in UNION {[1..n -> LineChars] : n \in 0..MaxLine} : Trim(l) = l}

\* the state of the scan of ollama.ts 128-131 with one line in textLines
InitParse ==
  /\ provider = "ollama"
  /\ apiKey = FALSE
  /\ messages = InitialMessages
  /\ fixture = [first |-> TxtPlain, rest |-> TxtPlain, plainFrom |-> 1]
  /\ stub = "ok"
  /\ pc = "scan"
  /\ thrown = "none"
  /\ currentMessages = messages
  /\ iterationCount = 0
  /\ buffer = <<>>
  /\ textBuf = <<>>
  /\ fullResponse = <<>>
  /\ toolCallsExecuted = 0
  /\ textLines \in {<<l>> : l \in TrimmedLines}
  /\ i = 1
  /\ toolCall = NoToolCall
  /\ pending = <<>>
  /\ wire = <<>>
  /\ requests = 1
  /\ res = [ok |-> TRUE, body |-> TRUE]
  /\ reqBody = messages
  /\ events = <<>>
  /\ received = <<>>
  /\ blocks = <<>>
  /\ job = NoJob
  /\ controller = "none"
  /\ rowIndex = 0
  /\ stale = NoStale
  /\ firstRun = NoRun
  /\ served = NoCall

\* ollama.ts 131: const toolCall = parseToolCall(textLines[i].trim())
ScanLine ==
  /\ pc = "scan"
  /\ toolCall' = parseToolCall(Trim(textLines[i]))
  /\ pc' = "scanned"
  /\ UNCHANGED <<args_, batch_, firstRun, served, thrown, currentMessages, iterationCount, iter_,
                 textLines, i, pending, wire, requests, res, reqBody, events>>

NextParse == ScanLine

SpecParse == InitParse /\ [][NextParse]_vars

\* is line the marker, at least minBlank white space characters, an
\* identifier, white space, and an object that JSON.parse accepts and that
\* ends the line
IsDirective(line, minBlank) ==
  \E a \in 1..Len(line), b \in 1..Len(line), c \in 1..Len(line) :
    /\ line[1] = TOOL
    /\ a >= 1 + minBlank
    /\ \A j \in 2..a : IsSpace(line[j])
    /\ b > a
    /\ \A j \in (a + 1)..b : line[j] \in WordChars
    /\ c >= b
    /\ \A j \in (b + 1)..c : IsSpace(line[j])
    /\ c < Len(line)
    /\ JSONParseArgs(SubSeq(line, c + 1, Len(line))).ok

\* the name and the arguments of a line that is a directive
DirectiveOf(line) ==
  LET a == SkipSpaces(line, 2)
      b == SkipWord(line, a)
      c == SkipSpaces(line, b)
  IN [found |-> TRUE, name |-> SubSeq(line, a, b - 1),
      args |-> JSONParseArgs(SubSeq(line, c, Len(line))).value]

Noticed == \E k \in 1..Len(Output) : Output[k] = Yield(NoticeText)

\* C14: the maximum-iterations notice is yielded exactly when the turn has
\* stopped after 10 outer iterations that each executed a tool call; a turn
\* that ends with an iteration without tool call, the tenth included, has
\* no notice in its output.
C14_NoticeIffTenToolIterations ==
  /\ Noticed <=>
       /\ pc = "done"
       /\ requests = maxIterations
       /\ toolCallsExecuted > 0
       /\ Cardinality(Nudges(currentMessages)) = maxIterations
  /\ Noticed => LastOutput = Yield(NoticeText)
  /\ (pc = "done" /\ toolCallsExecuted = 0) => ~Noticed

C14_Witness ==
  /\ pc = "done"
  /\ requests = maxIterations
  /\ toolCallsExecuted = 0
  /\ Cardinality(Nudges(currentMessages)) = maxIterations - 1
  /\ ~Noticed

\* does an assistant text hold a result or an error block
HasBlock(text) == \E j \in 1..Len(text) : text[j] = McpOpen

\* C15: the nudge stands in History directly after the assistant entry of
\* each outer iteration that executed a tool call, and nowhere else; its
\* text is in no output fragment.
C15_NudgeAfterToolIterations ==
  /\ \A k \in Assistants(currentMessages) :
       HasBlock(currentMessages[k].content)
         <=> (k + 1) \in Nudges(currentMessages)
  /\ \A k \in Nudges(currentMessages) : (k - 1) \in Assistants(currentMessages)
  /\ (pc \in {"loop", "done"} /\ requests >= 1) =>
       (toolCallsExecuted > 0 <=> Len(currentMessages) \in Nudges(currentMessages))
  /\ \A k \in 1..Len(Output) :
       \A j \in 1..Len(Output[k].text) : Output[k].text[j] # NudgeText

C15_Witness ==
  /\ pc = "done"
  /\ Len(currentMessages) = 5
  /\ Nudges(currentMessages) = {4}
  /\ HasBlock(currentMessages[3].content)
  /\ ~HasBlock(currentMessages[5].content)

\* C16: History only grows by appending, every entry keeps its role and
\* content, and the caller's messages array is not changed.
C16_HistoryAppendOnly ==
  [][/\ Len(currentMessages') >= Len(currentMessages)
     /\ SubSeq(currentMessages', 1, Len(currentMessages)) = currentMessages
     /\ messages' = messages]_vars

C16_Witness ==
  /\ Len(currentMessages) > Len(messages) + 2
  /\ messages = InitialMessages
  /\ SubSeq(currentMessages, 1, Len(messages)) = messages

\* C17: the History sent to the model for a later user turn holds the
\* unfiltered assistant text of the earlier turn: when the earlier turn
\* executed a tool call, an assistant entry of the request holds the
\* directive line and the result or error block.
C17_LaterTurnSeesToolUse ==
  (Turns(messages) = 2 /\ requests >= 1 /\ DirectiveLines(fixture.first) # {}) =>
    \E k \in Assistants(reqBody) :
      /\ k <= Len(messages)
      /\ HasBlock(reqBody[k].content)
      /\ \E j \in 1..Len(reqBody[k].content) : reqBody[k].content[j] = TOOL

\* C18: no part of an error block (the marker, the exception message, the
\* hint line) is added to the visible assistant message.
C18_ErrorBlockNotVisible ==
  \A j \in 1..Len(Visible) :
    Visible[j] \notin {McpOpen, ErrorClose, StatusMessage, FetchMessage, Hint}

\* did the tool server fail to serve the call: the tool is unknown or its
\* handler raised
ServerFailed(e) == e.name \notin Tools \/ HandlerRaises(e.args)

\* C19: a call the tool server fails to serve is followed by an error
\* block, never by a result block.
C19_ServerFailureIsErrorBlock ==
  \A k \in 1..(Len(events) - 1) :
    (events[k].kind = "call" /\ ServerFailed(events[k])) =>
      /\ events[k + 1].kind = "yield"
      /\ \E j \in 1..Len(events[k + 1].text) : events[k + 1].text[j] = ErrorClose
      /\ \A j \in 1..Len(events[k + 1].text) : events[k + 1].text[j] # ResultClose

\* C20: in batch processing the History of a row starts as exactly the
\* system message and the user message of that row: the first chat request
\* of the row carries these two messages and nothing else, and the k-th
\* request of the row carries them followed by the 2 * (k - 1) entries this
\* row's own iterations appended, so nothing another row produced is in it
C20_RowHistoryFresh ==
  pc \in {"loop", "read", "tool", "done", "closed", "error"} =>
    /\ messages = RowMessages(csvData[rowIndex + 1])
    /\ Len(currentMessages) >= 2
    /\ SubSeq(currentMessages, 1, 2) = messages
    /\ requests = 0 => currentMessages = messages
    /\ requests = 1 => reqBody = messages
    /\ requests >= 1 =>
         /\ Len(reqBody) = 2 * requests
         /\ SubSeq(reqBody, 1, 2) = messages
         /\ \A k \in 3..Len(reqBody) :
              reqBody[k] \notin {systemMessage} \cup
                {RowMessages(csvData[r])[2] : r \in 1..Len(csvData)}

\* the first request of the second row, sent after the first row ran a tool
\* call whose result is part of the recorded response, carries two messages
C20_Witness ==
  /\ rowIndex = 1
  /\ pc = "read"
  /\ requests = 1
  /\ reqBody = RowMessages(csvData[2])
  /\ Len(job.results) = 1
  /\ job.results[1].status = "completed"
  /\ \E k \in 1..Len(job.results[1].response) :
       job.results[1].response[k] = ResultJson

\* ------------------------------------------------ a turn that is scheduled
\* ollamaChat where every awaited promise settles: the stream source sends
\* and closes the stream, reader.read() and callMcpTool return, and the
\* generator is resumed by its consumer
\* ollama.ts 87: reader.read() returns bytes that wait on the wire.  Among
\* the steps of Next these are the steps of ReadChunk, and it is enabled
\* when ReadChunk is.
ReaderRead ==
  /\ pc = "read"
  /\ Len(wire) > 0
  /\ \E n \in 1..Min(MaxChunk, Len(wire)) : wire' = SubSeq(wire, n + 1, Len(wire))

SpecLive ==
  /\ Init
  /\ [][Next]_vars
  /\ WF_vars(ModelEmit)
  /\ WF_vars(NoApiKey)
  /\ WF_vars(ChatRequest)
  /\ WF_wire(ReaderRead)
  /\ WF_vars(ToolReturn)
  /\ WF_vars(StreamEnd)
  /\ WF_vars(MaxStop)

\* C22: when every stream closes and every tool call returns or fails, a
\* turn reaches a terminal state, and a terminal state is the normal
\* completion (an iteration without a tool call), the stop at the maximum of
\* iterations, or an error of the chat request raised to the caller
C22_TurnTerminates ==
  /\ <>(pc \in {"done", "error"})
  /\ [](pc = "done" =>
          \/ toolCallsExecuted = 0 /\ iterationCount < maxIterations
          \/ iterationCount = maxIterations)
  /\ [](pc = "error" =>
          thrown \in {"chat failed", "OpenRouter API key is required"})

\* a normal completion in a later iteration, after tool calls that failed
C22_Witness ==
  /\ pc = "done"
  /\ requests >= 2
  /\ toolCallsExecuted = 0
  /\ stub = "throw"
  /\ Len(ToolCalls) > 0

\* ------------------------------------------------- a recorded run, replayed
\* A recorded stream source: a stub together with the size of the text
\* deltas it sends, the size of the chunks reader.read() returns, and the
\* chat request that fails (0 for none).  The stub that runs into the
\* iteration cap is taken with one provider, one proxy response, one size.
ReplayChunks == {1, MaxDelta, MaxChunk}

ReplayFixtures ==
  {[first |-> t, rest |-> TxtPlain, plainFrom |-> 1,
    delta |-> d, chunk |-> c, failAt |-> k] :
     t \in {TxtMixed, TxtUml}, d \in 1..MaxDelta, c \in ReplayChunks,
     k \in {0, 2}}
  \cup {[first |-> TxtCallF, rest |-> TxtCallF, plainFrom |-> maxIterations,
         delta |-> MaxDelta, chunk |-> MaxChunk, failAt |-> 0]}

InitReplay ==
  /\ provider \in Providers
  /\ apiKey \in BOOLEAN
  /\ provider = "ollama" => ~apiKey
  /\ messages = InitialMessages
  /\ fixture \in ReplayFixtures
  /\ stub \in ToolResponses
  /\ fixture.plainFrom = maxIterations => provider = "ollama" /\ stub = "ok"
  /\ pc = "loop"
  /\ thrown = "none"
  /\ currentMessages = messages
  /\ iterationCount = 0
  /\ buffer = <<>>
  /\ textBuf = <<>>
  /\ fullResponse = <<>>
  /\ toolCallsExecuted = 0
  /\ textLines = <<>>
  /\ i = 0
  /\ toolCall = NoToolCall
  /\ pending = <<>>
  /\ wire = <<>>
  /\ requests = 0
  /\ res = [ok |-> TRUE, body |-> TRUE]
  /\ reqBody = <<>>
  /\ events = <<>>
  /\ received = <<>>
  /\ blocks = <<>>
  /\ job = NoJob
  /\ controller = "none"
  /\ rowIndex = 0
  /\ stale = NoStale
  /\ firstRun = NoRun
  /\ served = NoCall

\* the stream source has a delta to send and room on the wire
EmitPossible == pc \in {"read", "tool"} /\ Len(pending) > 0 /\ Len(wire) < MaxWire

\* the steps of ollamaChat with the fragments of the recording: the deltas
\* and chunks have the recorded sizes, the stream source sends as soon as it
\* can, and the recorded chat request fails
EmitRecorded ==
  /\ ModelEmit
  /\ Len(pending') = Len(pending) - Min(fixture.delta, Len(pending))

RequestRecorded ==
  /\ ChatRequest
  /\ res'.body
  /\ res'.ok <=> requests' # fixture.failAt

ReadRecorded ==
  /\ ~EmitPossible
  /\ ReadChunk
  /\ Len(wire') = Len(wire) - Min(fixture.chunk, Len(wire))

ToolRecorded ==
  /\ ~EmitPossible
  /\ ToolReturn

\* the first run has ended: its History, its output and its error are kept
\* and ollamaChat is called again with the same arguments
SecondRun ==
  /\ pc \in {"done", "error"}
  /\ ~firstRun.ended
  /\ firstRun' = [ended |-> TRUE, history |-> currentMessages,
                  output |-> Output, thrown |-> thrown]
  /\ StartChat(messages)
  /\ UNCHANGED <<provider, apiKey, fixture, stub, batch_, served>>

NextReplay ==
  \/ EmitRecorded
  \/ NoApiKey
  \/ RequestRecorded
  \/ ReadRecorded
  \/ ToolRecorded
  \/ StreamEnd
  \/ MaxStop
  \/ SecondRun

SpecReplay == InitReplay /\ [][NextReplay]_vars

\* C23: a second run of ollamaChat on the same initial History, with the
\* same stream fragments in every iteration and the same proxy responses,
\* ends with the same History, the same sequence of output fragments and
\* the same error as the first run
C23_ReplayYieldsSame ==
  (firstRun.ended /\ pc \in {"done", "error"}) =>
    /\ currentMessages = firstRun.history
    /\ Output = firstRun.output
    /\ thrown = firstRun.thrown

\* both runs ended after a tool iteration whose text holds a byte sequence
\* cut by a read
C23_Witness ==
  /\ firstRun.ended
  /\ pc = "done"
  /\ Len(firstRun.history) = Len(messages) + 3
  /\ Len(ToolCalls) = 1
  /\ fixture.first = TxtUml
  /\ fixture.chunk < MaxChunk

\* the place of the first occurrence of b in s: the number of characters of
\* s in front of it
BlockAt(s, b) ==
  CHOOSE k \in 0..(Len(s) - Len(b)) :
    /\ SubSeq(s, k + 1, k + Len(b)) = b
    /\ \A h \in 0..(k - 1) : SubSeq(s, h + 1, h + Len(b)) # b

\* the first directive line of a model output
FirstDirective(text) ==
  CHOOSE j \in DirectiveLines(text) : \A h \in DirectiveLines(text) : j <= h

\* the output part of C24: what is yielded in front of the first block of
\* the first iteration is the text in front of the directive line, the echo
\* of the directive and the calling marker
BlockInOrderInOutput ==
  (requests = 1 /\ Len(blocks) > 0 /\ DirectiveLines(fixture.first) # {}) =>
    LET lines == SplitLines(fixture.first)
        j == FirstDirective(fixture.first)
        tc == parseToolCall(Trim(lines[j]))
    IN /\ IsInfix(blocks[1], OutputText)
       /\ SubSeq(OutputText, 1, BlockAt(OutputText, blocks[1]))
            = Join(SubSeq(lines, 1, j - 1)) \o EchoText(tc) \o CallingText(tc)

\* the History part of C24: in the assistant entry of the first iteration
\* the first block stands behind the directive line and its line
\* terminator, in front of the text that followed the line
BlockInOrderInHistory ==
  (requests = 1 /\ pc \in {"loop", "done"} /\ Len(blocks) > 0
     /\ DirectiveLines(fixture.first) # {}) =>
    LET lines == SplitLines(fixture.first)
        j == FirstDirective(fixture.first)
        upTo == Len(Join(SubSeq(lines, 1, j)))
        a == currentMessages[Len(messages) + 1].content
    IN /\ IsInfix(blocks[1], a)
       /\ BlockAt(a, blocks[1]) >= upTo
       /\ \A m \in (upTo + 1)..BlockAt(a, blocks[1]) : a[m] \in {CR, LF}

\* C24: a result or error block stands, in the output and in the assistant
\* entry of History, behind the directive line that caused it and in front
\* of all model text that followed that line in the stream
C24_BlockInOrder == BlockInOrderInOutput /\ BlockInOrderInHistory

\* the characters that only the blocks of ollamaChat hold
BlockChars == {McpOpen, ResultClose, ErrorClose, Hint, StatusMessage,
               FetchMessage, ResultJson, ErrorJson, UnknownJson, ErrorBody}

\* the tool names of the directive lines the model wrote in this turn
ModelNames ==
  {DirectiveNames(fixture.first)[k] : k \in 1..Len(DirectiveNames(fixture.first))}
  \cup {DirectiveNames(fixture.rest)[k] : k \in 1..Len(DirectiveNames(fixture.rest))}

\* C26: no text of a result or error block gets into textBuf or into the
\* lines that are scanned, so a block that holds a line of the form of a
\* directive causes no call of the proxy: every call carries the name of a
\* directive line of the model
C26_BlockTextNotScanned ==
  /\ \A j \in 1..Len(textBuf) : textBuf[j] \notin BlockChars
  /\ \A l \in 1..Len(textLines) : \A j \in 1..Len(textLines[l]) :
       textLines[l][j] \notin BlockChars
  /\ \A k \in 1..Len(blocks) : ~IsInfix(blocks[k], textBuf)
  /\ \A k \in 1..Len(ToolCalls) : ToolCalls[k].name \in ModelNames

\* a turn has ended whose error block held a directive line for tool g; the
\* proxy was called once, for the directive of the model
C26_Witness ==
  /\ pc = "done"
  /\ stub = "page"
  /\ Len(ToolCalls) = 1
  /\ ToolCalls[1].name = <<"f">>
  /\ \E k \in 1..Len(Output) :
       /\ IsInfix(<<ErrorClose, StatusMessage>>, Output[k].text)
       /\ DirectiveNames(Output[k].text) = <<(<<"g">>)>>

\* ------------------------------------------ the chat window, scheduled
\* the chat window where every awaited promise of ollamaChat settles; the
\* user is free never to send again
SpecAppLive ==
  /\ InitApp
  /\ [][NextApp]_vars
  /\ WF_vars(ModelEmit)
  /\ WF_vars(NoApiKey)
  /\ WF_vars(ChatRequest)
  /\ WF_wire(ReaderRead)
  /\ WF_vars(ToolReturn)
  /\ WF_vars(StreamEnd)
  /\ WF_vars(MaxStop)

\* C29: after send() was started with an input that is not blank, the
\* streaming flag is cleared again, whether the turn ends normally, at the
\* maximum of iterations or with an error raised by ollamaChat
C29_StreamingEnds == [](streaming => <>(~streaming))

\* ------------------------------------------------ the file tools on their own
\* the longest dir or file argument, in path components
MaxPath == 3

\* part_000 525-526: ROOT_ABS, the dataset root, as its path components
ROOT_ABS == <<"data", "gesetze">>

\* the files on the disk: two under the root, one beside the root, and one
\* in a directory whose name begins with the name of the root directory
Disk == {<<"data", "gesetze", "bgb.md">>, <<"data", "gesetze", "zpo", "index.md">>,
         <<"data", "secret.md">>, <<"data", "gesetze-alt", "bgb.md">>}

\* the path components of the arguments
Components == {"..", "bgb.md", "zpo", "secret.md", "gesetze-alt"}

Paths == UNION {[1..n -> Components] : n \in 0..MaxPath}

\* is the string a the beginning of the string b
NameStartsWith(b, a) == a = b \/ (a = "gesetze" /\ b = "gesetze-alt")

\* path.resolve(base, rel) for a relative rel
RECURSIVE PathResolve(_, _)
PathResolve(base, rel) ==
  IF Len(rel) = 0 THEN base
  ELSE IF rel[1] = ".."
       THEN PathResolve(SubSeq(base, 1, Len(base) - 1), Tail(rel))
       ELSE PathResolve(Append(base, rel[1]), Tail(rel))

\* full.startsWith(ROOT_ABS) on the path strings
StartsWithRoot(full) ==
  /\ Len(full) >= Len(ROOT_ABS)
  /\ SubSeq(full, 1, Len(ROOT_ABS) - 1) = SubSeq(ROOT_ABS, 1, Len(ROOT_ABS) - 1)
  /\ NameStartsWith(full[Len(ROOT_ABS)], ROOT_ABS[Len(ROOT_ABS)])

\* the files below a directory
Below(dir) == {f \in Disk : Len(f) > Len(dir) /\ SubSeq(f, 1, Len(dir)) = dir}

\* part_000 602-621: list_files through listFiles; the directory is resolved
\* against the root and every file below it is returned
list_files(dir) ==
  [name |-> "list_files", arg |-> dir, kind |-> "result",
   full |-> PathResolve(ROOT_ABS, dir), files |-> Below(PathResolve(ROOT_ABS, dir))]

\* part_000 635-637, 810-815: search_files with a glob that names a
\* directory below the root; the files that match are read
search_files(glob) ==
  [name |-> "search_files", arg |-> glob, kind |-> "result",
   full |-> ROOT_ABS \o glob, files |-> Below(ROOT_ABS \o glob)]

\* the tools that take a file argument
FileTools == {"read_file", "get_file_info", "read_file_chunk", "find_and_read"}

\* part_000 873-878, 907-912, 955-964, 997-1006: the file is resolved
\* against the root, refused when the result does not start with the root,
\* and read
ReadTool(name, file) ==
  LET full == PathResolve(ROOT_ABS, file)
  IN IF ~StartsWithRoot(full)
     THEN [name |-> name, arg |-> file, kind |-> "Path traversal blocked",
           full |-> full, files |-> {}]
     ELSE IF full \in Disk
     THEN [name |-> name, arg |-> file, kind |-> "result", full |-> full,
           files |-> {full}]
     ELSE [name |-> name, arg |-> file, kind |-> "read error", full |-> full,
           files |-> {}]

InitFiles ==
  /\ provider = "ollama"
  /\ apiKey = FALSE
  /\ messages = InitialMessages
  /\ fixture = [first |-> TxtPlain, rest |-> TxtPlain, plainFrom |-> 1]
  /\ stub = "ok"
  /\ pc = "idle"
  /\ thrown = "none"
  /\ currentMessages = <<>>
  /\ iterationCount = 0
  /\ buffer = <<>>
  /\ textBuf = <<>>
  /\ fullResponse = <<>>
  /\ toolCallsExecuted = 0
  /\ textLines = <<>>
  /\ i = 0
  /\ toolCall = NoToolCall
  /\ pending = <<>>
  /\ wire = <<>>
  /\ requests = 0
  /\ res = [ok |-> TRUE, body |-> TRUE]
  /\ reqBody = <<>>
  /\ events = <<>>
  /\ received = <<>>
  /\ blocks = <<>>
  /\ job = NoJob
  /\ controller = "none"
  /\ rowIndex = 0
  /\ stale = NoStale
  /\ firstRun = NoRun
  /\ served = NoCall

\* part_000 1084-1096: the tool server handles one call of a file tool
CallTool ==
  /\ \E p \in Paths :
       \/ served' = list_files(p)
       \/ /\ \A k \in 1..Len(p) : p[k] # ".."
          /\ served' = search_files(p)
       \/ \E t \in FileTools : served' = ReadTool(t, p)
  /\ UNCHANGED <<args_, batch_, firstRun, pc, thrown, currentMessages,
                 iterationCount, iter_, await_, pending, wire, requests, res,
                 reqBody, events>>

NextFiles == CallTool

SpecFiles == InitFiles /\ [][NextFiles]_vars

\* is the path a file below the dataset root
UnderRoot(f) ==
  Len(f) > Len(ROOT_ABS) /\ SubSeq(f, 1, Len(ROOT_ABS)) = ROOT_ABS

\* C25: a file tool returns the name or the content of files below the
\* dataset root only, and a file argument that resolves to a path that is
\* not below the root fails with 'Path traversal blocked'
C25_NothingOutsideRoot ==
  /\ \A f \in served.files : UnderRoot(f)
  /\ (served.name \in FileTools /\ served.full # ROOT_ABS
        /\ ~UnderRoot(served.full)) => served.kind = "Path traversal blocked"

\* ----------------------------------------- the batch with pause, resume, stop
\* the stream source stubs of the jobs: the deltas and chunks have the sizes
\* of the stub, every row gets the same stream
JobFixtures ==
  {f \in ReplayFixtures :
     \/ f.first = TxtMixed /\ f.delta = MaxDelta /\ f.chunk \in {1, MaxChunk}
     \/ f.plainFrom = maxIterations}

\* the BatchProcessor after a CSV file was loaded
InitPause ==
  /\ provider \in Providers
  /\ apiKey \in BOOLEAN
  /\ provider = "ollama" => ~apiKey
  /\ messages = <<>>
  /\ fixture \in JobFixtures
  /\ stub \in ToolResponses
  /\ fixture.plainFrom = maxIterations => provider = "ollama" /\ stub = "ok"
  /\ pc = "idle"
  /\ thrown = "none"
  /\ currentMessages = <<>>
  /\ iterationCount = 0
  /\ buffer = <<>>
  /\ textBuf = <<>>
  /\ fullResponse = <<>>
  /\ toolCallsExecuted = 0
  /\ textLines = <<>>
  /\ i = 0
  /\ toolCall = NoToolCall
  /\ pending = <<>>
  /\ wire = <<>>
  /\ requests = 0
  /\ res = [ok |-> TRUE, body |-> TRUE]
  /\ reqBody = <<>>
  /\ events = <<>>
  /\ received = <<>>
  /\ blocks = <<>>
  /\ job = NoJob
  /\ controller = "none"
  /\ rowIndex = 0
  /\ stale = NoStale
  /\ firstRun = NoRun
  /\ served = NoCall

\* the handlers of the buttons start, pause and resume, and the loop of
\* processJob
NextPause ==
  \/ startProcessing
  \/ RowEnd
  \/ pauseProcessing
  \/ resumeProcessing
  \/ EmitRecorded
  \/ NoApiKey
  \/ RequestRecorded
  \/ ReadRecorded
  \/ ToolRecorded
  \/ StreamEnd
  \/ MaxStop

SpecPause == InitPause /\ [][NextPause]_vars

\* the jobs that are stopped and started again: one proxy response, whole
\* chunks, and no stub that runs into the iteration cap
InitJobs ==
  /\ InitPause
  /\ fixture.plainFrom = 1
  /\ fixture.chunk = MaxChunk
  /\ stub = "ok"

\* all four buttons, the loop of processJob and the loop of an overtaken
\* processJob
NextJobs ==
  \/ startProcessing
  \/ RowEnd
  \/ pauseProcessing
  \/ resumeProcessing
  \/ stopProcessing
  \/ StaleRowEnd
  \/ EmitRecorded
  \/ NoApiKey
  \/ RequestRecorded
  \/ ReadRecorded
  \/ ToolRecorded
  \/ StreamEnd

SpecJobs == InitJobs /\ [][NextJobs]_vars

\* C28: a row whose turn was cut short by an abort (the consumer left the
\* loop over the chunks before ollamaChat finished) is not recorded as a
\* result with status 'completed'
C28_CutRowNotCompleted ==
  [][(pc = "closed" /\ rowIndex' = rowIndex + 1
        /\ Len(job'.results) = Len(job.results) + 1)
       => job'.results[Len(job'.results)].status # "completed"]_vars

\* C30: for a job run with start, pause and resume only, the number of
\* recorded results equals currentIndex and is at most the number of rows,
\* the k-th result belongs to the k-th row and has status 'completed' or
\* 'error', and the job is 'completed' only when every row has a result
C30_ResultsFollowRows ==
  /\ Len(job.results) = job.currentIndex
  /\ Len(job.results) <= Len(csvData)
  /\ \A k \in 1..Len(job.results) :
       /\ job.results[k].processId = csvData[k]
       /\ job.results[k].status \in {"completed", "error"}
  /\ job.status = "completed" => Len(job.results) = Len(csvData)

\* a job that ended after the first row was cut by a pause and the second
\* row ran in full after the resume
C30_Witness ==
  /\ job.status = "completed"
  /\ Len(job.results) = Len(csvData)
  /\ job.results[1].status = "completed"
  /\ job.results[2].status = "completed"
  /\ Len(job.results[1].response) < Len(job.results[2].response)

\* C27: a processJob loop that a later loop overtook (its job was stopped
\* and startProcessing ran before the loop saw the abort) starts no further
\* row and changes neither the results nor the currentIndex of the job
C27_StoppedLoopIsSilent ==
  [][(stale.alive /\ stale' # stale) => (job' = job /\ ~stale'.alive)]_vars

\* C21: once the job of a loop was aborted by pause or stop, the loop starts
\* no further row, neither while the aborted controller is the current one
\* nor after a later loop has taken over, and a job that becomes 'paused'
\* has currentIndex at its first row without a result
C21_NoRowAfterAbort ==
  [][/\ (Aborted /\ controller' = controller /\ rowIndex' # rowIndex)
          => pc' = "idle"
     /\ stale.alive => ~(stale'.alive /\ stale'.i # stale.i)
     /\ (job.status # "paused" /\ job'.status = "paused")
          => job'.currentIndex = Len(job'.results)]_vars

====
